---- MODULE Spec2Model ----
(***************************************************************************)
(* The real-time message synchronisation core of the chat client.          *)
(*                                                                         *)
(* The repository carries two chat managers and two WebSocket managers:    *)
(*   - common/model/ChatManager.ets   (variables chat_...), which sits on   *)
(*     common/api/WebSocketManager.ets (variables api_...);                *)
(*   - the second ChatManager (unnamed/part_002), on the WebSocketManager  *)
(*     of common/push/PushManager.ets (variables push_...).                *)
(* ChatManager.ets and the two WebSocketManagers are modelled, each as its *)
(* own state machine over its own variables; the variables of the others   *)
(* keep their initial values.                                              *)
(*                                                                         *)
(* All JavaScript values are encoded as integers so that `===` between a    *)
(* number and a string is an ordinary (false) comparison: user ids are      *)
(* 1..3, display names 100.., message texts 200.., `undefined` is 900.      *)
(***************************************************************************)
EXTENDS Integers, Sequences, FiniteSets, TLC

VARIABLES
  \* ---- common/model/ChatManager.ets ----
  chat_currentUserId,      \* currentUserId
  chat_messageCache,       \* messageCache: Map<number, ChatMessage[]>
  chat_conversationCache,  \* conversationCache: ChatConversation[]
  chat_wsListeners,        \* number of listener objects this manager pushed onto
                           \* WebSocketManager.messageListeners
  chat_pc,                 \* position of the running connect() chain
  chat_stored,             \* what LocalDataManager holds: [convs, msgs]
  chat_sentLog,            \* history: the sendMessage calls, in order, and
                           \* whether each reached sendPrivateMessage
  chat_offlineAcked,       \* history: ids named in markOfflineMessagesAsRead
  \* ---- which WebSocketManager runs ----
  ws_variant,              \* "push", "api", or "none" while only the store runs
  \* ---- common/push/PushManager.ets, class WebSocketManager ----
  push_isConnected,        \* isConnected
  push_ws,                 \* ws: the socket object held, 0 for null
  push_socks,              \* the sockets created so far and the state of each
  push_reconnectAttempts,  \* reconnectAttempts
  push_timers,             \* delays of the setTimeout calls not yet fired
  push_messageQueue,       \* messageQueue (the array this.messageQueue names)
  push_replays,            \* the sendQueuedMessages calls suspended at an await
  push_requeue,            \* frames of emit calls whose ws.send rejected and
                           \* whose catch block has not run yet
  push_hung,               \* the event loop is stuck in sendQueuedMessages
  push_hist,               \* history: emit calls, frames handed to the
                           \* transport, acknowledgments, failures, timers
                           \* armed, sockets the timers created since the
                           \* last open event
  \* ---- common/api/WebSocketManager.ets ----
  api_status,              \* status
  api_webSocket,           \* webSocket: the socket object held, 0 for null
  api_socks,               \* the sockets created so far and the state of each
  api_reconnectTimer,      \* delay of the pending reconnect timer, 0 for none
  api_reconnectAttempts,   \* reconnectAttempts
  api_hist,                \* history: emit calls and how each settled, frames
                           \* handed to the transport, frames dropped,
                           \* failures, timers armed, the last notification of
                           \* the connection listeners, inbound frames
  api_connectionListeners, \* connectionListeners: the listener objects
  api_fanout               \* history: the last notifyConnectionListeners call

chatVars == <<chat_currentUserId, chat_messageCache, chat_conversationCache,
              chat_wsListeners, chat_pc, chat_stored, chat_sentLog,
              chat_offlineAcked>>

pushVars == <<push_isConnected, push_ws, push_socks, push_reconnectAttempts,
              push_timers, push_messageQueue, push_replays, push_requeue,
              push_hung, push_hist>>

apiVars == <<api_status, api_webSocket, api_socks, api_reconnectTimer,
             api_reconnectAttempts, api_hist>>

listenerVars == <<api_connectionListeners, api_fanout>>

wsVars == <<ws_variant, pushVars, apiVars, listenerVars>>

vars == <<chatVars, wsVars>>

-----------------------------------------------------------------------------
\* Bounds of the model.
MaxRows == 3          \* rows the message cache may hold in total
MaxSends == 1         \* sendMessage calls
MaxConnects == 2      \* ChatManager.connect calls
NumServerMsgs == 2    \* distinct messages the server holds for this user
MaxTime == 3          \* timestamps are 1..MaxTime

\* Value encoding.
NoUser == -1          \* currentUserId before connect / after disconnect
Me == 1               \* the userId the UI passes to connect()
NameBase == 100       \* display name of user u is NameBase + u
UnknownUser == 100    \* the literal for 'unknown user'
MyName == 199         \* the literal for 'me'
EmptyStr == 200       \* the literal ''
TextBase == 200       \* message text number k is TextBase + k
Undefined == 900      \* JavaScript undefined
KeyBase == 10         \* server ids given to locally sent messages start above it
ConvIdBase == 50      \* server-side conversation ids

Peers == {2, 3}
ServerMsgIds == 1..NumServerMsgs
Texts == {TextBase + 50}

NameOf(u) == NameBase + u
Falsy == {0, EmptyStr, Undefined}

\* JavaScript `v || d`.
Or(v, d) == IF v \in Falsy THEN d ELSE v

SeqSum(s) == LET F[i \in 0..Len(s)] == IF i = 0 THEN 0 ELSE F[i - 1] + s[i] IN F[Len(s)]
SetToSeq(S) ==
  LET n == Cardinality(S)
      F[i \in 0..n] ==
        IF i = 0 THEN <<>>
        ELSE LET rest == S \ {F[i - 1][j] : j \in 1..(i - 1)}
                 x == CHOOSE y \in rest : \A z \in rest : y <= z
             IN Append(F[i - 1], x)
  IN F[n]

-----------------------------------------------------------------------------
\* ChatMessage and ChatConversation (unnamed/part_005).

\* new ChatMessage(a1, a2, a3, a4): positional parameters id, senderId,
\* receiverId, message; the defaults messageType = 'text', isRead = false,
\* createdAt = new Date() apply to the parameters left out. `key` is a
\* history field: the logical message the object is a copy of.
NewChatMessage(a1, a2, a3, a4, now) ==
  [id |-> a1, senderId |-> a2, receiverId |-> a3, message |-> a4,
   isRead |-> FALSE, createdAt |-> now, senderName |-> Undefined, key |-> 0]

\* ChatMessage.fromJson(json): every field is json.<field> || <default>.
MessageFromJson(json, now) ==
  [NewChatMessage(Undefined, Undefined, Undefined, Undefined, now) EXCEPT
     !.id = Or(json.id, 0),
     !.senderId = Or(json.senderId, 0),
     !.receiverId = Or(json.receiverId, 0),
     !.message = Or(json.message, EmptyStr),
     !.isRead = json.isRead,
     !.createdAt = Or(json.createdAt, now),
     !.senderName = Or(json.senderName, EmptyStr),
     !.key = json.id]

\* new ChatConversation(a1, a2, a3): positional parameters id, otherUserId,
\* otherUserName; unreadCount defaults to 0. `peer` is a history field: the
\* other participant the entry was made for.
NewChatConversation(a1, a2, a3) ==
  [id |-> a1, otherUserId |-> a2, otherUserName |-> a3,
   lastMessage |-> Undefined, lastMessageTime |-> Undefined,
   unreadCount |-> 0, peer |-> 0]

\* ChatConversation.fromJson(json).
ConversationFromJson(json) ==
  [NewChatConversation(Undefined, Undefined, Undefined) EXCEPT
     !.id = Or(json.id, 0),
     !.otherUserId = Or(json.otherUserId, 0),
     !.otherUserName = Or(json.otherUserName, EmptyStr),
     !.lastMessage = Or(json.lastMessage, EmptyStr),
     !.lastMessageTime = json.lastMessageTime,
     !.unreadCount = json.unreadCount,
     !.peer = json.otherUserId]

-----------------------------------------------------------------------------
\* What the server sends.

\* Messages 1 and 2 come from peer 2, message 3 from peer 3, and so on; a
\* later id need not carry a later origin timestamp.
SenderOf(k) == IF k % 3 = 0 THEN 3 ELSE 2
CreatedOf(k) == ((2 * k) % MaxTime) + 1

\* What new Date() returns in the i-th sendMessage call.
SendTime(i) == ((i + 1) % MaxTime) + 1

\* The JSON of server message k, addressed to the local user.
ServerMsgJson(k) ==
  [id |-> k, senderId |-> SenderOf(k), receiverId |-> Me,
   message |-> TextBase + k, isRead |-> FALSE, createdAt |-> CreatedOf(k),
   senderName |-> NameOf(SenderOf(k))]

\* The JSON the server sends back for a message this client sent.
EchoJson(s) ==
  [id |-> s.key, senderId |-> s.senderId, receiverId |-> s.receiverId,
   message |-> s.message, isRead |-> FALSE, createdAt |-> s.createdAt,
   senderName |-> NameOf(s.senderId)]

\* The JSON of the conversation with peer p as the conversations endpoint
\* gives it: nothing unread from peer 2, one message unread from peer 3.
ServerConvJson(p) ==
  [id |-> ConvIdBase + p, otherUserId |-> p, otherUserName |-> NameOf(p),
   lastMessage |-> TextBase, lastMessageTime |-> 1, unreadCount |-> p - 2]

\* A batch of offline messages: server messages in ascending id order.
Batches == {SetToSeq(S) : S \in (SUBSET ServerMsgIds) \ {{}}}

-----------------------------------------------------------------------------
\* ChatManager.ets: the store operations, as functions of the store
\* st = [cache, convs]. The cache is a Map: a function whose domain is the
\* set of keys set so far.

\* messageCache.get(k) || []
Get(cache, k) == IF k \in DOMAIN cache THEN cache[k] ELSE <<>>

\* messageCache.set(k, v)
Set(cache, k, v) == [x \in DOMAIN cache \cup {k} |-> IF x = k THEN v ELSE cache[x]]

RECURSIVE SumLen(_, _)
SumLen(cache, K) ==
  IF K = {} THEN 0
  ELSE LET k == CHOOSE x \in K : TRUE IN Len(cache[k]) + SumLen(cache, K \ {k})

TotalRows(cache) == SumLen(cache, DOMAIN cache)

\* addMessageToCache(userId, message)
addMessageToCache(cache, userId, message) ==
  Set(cache, userId, Append(Get(cache, userId), message))

\* conversationCache.find(c => c.otherUserId === userId) as the place of the
\* first such entry, 0 for "not found".
FindConversation(s, userId) ==
  IF \E i \in DOMAIN s : s[i].otherUserId = userId
  THEN CHOOSE i \in DOMAIN s :
         /\ s[i].otherUserId = userId
         /\ \A j \in 1..(i - 1) : s[j].otherUserId # userId
  ELSE 0

RemoveAt(s, i) == SubSeq(s, 1, i - 1) \o SubSeq(s, i + 1, Len(s))

\* updateConversationWithMessage(message)
updateConversationWithMessage(convs, me, message) ==
  LET otherUserId == IF message.senderId = me THEN message.receiverId
                     ELSE message.senderId
      index == FindConversation(convs, otherUserId)
      conversation ==
        IF index = 0
        THEN [NewChatConversation(otherUserId,
                                  Or(message.senderName, UnknownUser),
                                  Undefined) EXCEPT !.peer = otherUserId]
        ELSE convs[index]
      rest == IF index = 0 THEN convs ELSE RemoveAt(convs, index)
      updated == [conversation EXCEPT
                    !.lastMessage = message.message,
                    !.lastMessageTime = message.createdAt,
                    !.unreadCount = IF message.senderId # me THEN @ + 1 ELSE @]
  IN <<updated>> \o rest

\* updateConversationUnreadCount(userId, count)
updateConversationUnreadCount(convs, userId, count) ==
  LET index == FindConversation(convs, userId)
  IN IF index = 0 THEN convs
     ELSE [convs EXCEPT ![index].unreadCount = count]

\* handleNewMessage(message), without the save and the notification.
handleNewMessage(st, me, message) ==
  [cache |-> addMessageToCache(st.cache, message.senderId, message),
   convs |-> updateConversationWithMessage(st.convs, me, message)]

\* handleOfflineMessages(messages): handleNewMessage for each, in order.
RECURSIVE handleOfflineMessages(_, _, _)
handleOfflineMessages(st, me, messages) ==
  IF messages = <<>> THEN st
  ELSE handleOfflineMessages(handleNewMessage(st, me, Head(messages)), me,
                             Tail(messages))

\* The forEach loops of markAsRead and handleMessageRead over
\* messageCache.get(id) || []: the flag is set on the objects in place.
MarkRead(cache, id) ==
  IF id \notin DOMAIN cache THEN cache
  ELSE [cache EXCEPT ![id] =
          [i \in DOMAIN @ |-> IF @[i].senderId = id THEN [@[i] EXCEPT !.isRead = TRUE]
                              ELSE @[i]]]

\* A listener callback runs once for every listener object registered: n
\* listeners handle the messages s one listener after the other.
RECURSIVE Copies(_, _)
Copies(n, s) == IF n = 0 THEN <<>> ELSE s \o Copies(n - 1, s)

Store == [cache |-> chat_messageCache, convs |-> chat_conversationCache]

-----------------------------------------------------------------------------
\* LocalDataManager as ChatManager.ets uses it (saveMessage, saveMessages,
\* markMessagesAsRead, saveConversations, getConversations,
\* getMessagesWithUser).

StoredWithUser(msgs, u) ==
  LET With(m) == m.senderId = u \/ m.receiverId = u IN SelectSeq(msgs, With)

StoredMarkRead(msgs, u) ==
  [i \in DOMAIN msgs |-> IF msgs[i].senderId = u THEN [msgs[i] EXCEPT !.isRead = TRUE]
                         ELSE msgs[i]]

\* loadLocalData(): the cached list becomes the stored one, and the cache
\* entry of every stored conversation its stored messages.
RECURSIVE loadLocalMessages(_, _, _)
loadLocalMessages(cache, convs, msgs) ==
  IF convs = <<>> THEN cache
  ELSE loadLocalMessages(Set(cache, Head(convs).otherUserId,
                             StoredWithUser(msgs, Head(convs).otherUserId)),
                         Tail(convs), msgs)

-----------------------------------------------------------------------------
\* connect(userId) up to the end of loadLocalData; syncFromServer follows in
\* ChatSyncFromServer.
ChatConnect(userId) ==
  /\ UNCHANGED wsVars
  /\ chat_pc = "idle"
  /\ chat_wsListeners < MaxConnects
  /\ chat_currentUserId' = userId
  /\ chat_wsListeners' = chat_wsListeners + 1
  /\ chat_conversationCache' = chat_stored.convs
  /\ chat_messageCache' =
       loadLocalMessages(chat_messageCache, chat_stored.convs, chat_stored.msgs)
  /\ TotalRows(chat_messageCache') <= MaxRows
  /\ chat_pc' = "syncFromServer"
  /\ UNCHANGED <<chat_stored, chat_sentLog, chat_offlineAcked>>

\* loadConversationsFromServer(): the store after it, given the response.
loadConversationsFromServer(st, success, S) ==
  IF success
  THEN [st EXCEPT !.convs = [i \in 1..Cardinality(S) |->
                               ConversationFromJson(ServerConvJson(SetToSeq(S)[i]))]]
  ELSE st

\* The forEach of fetchOfflineMessages.
RECURSIVE fetchLoop(_, _, _)
fetchLoop(st, me, data) ==
  IF data = <<>> THEN st
  ELSE fetchLoop([cache |-> addMessageToCache(st.cache, Head(data).senderId, Head(data)),
                  convs |-> updateConversationWithMessage(st.convs, me, Head(data))],
                 me, Tail(data))

\* The rows ChatMessage.fromJson makes of a batch of server messages.
BatchMessages(batch) ==
  [i \in DOMAIN batch |-> MessageFromJson(ServerMsgJson(batch[i]), Undefined)]

\* fetchOfflineMessages(): the store after it, given the response.
fetchOfflineMessages(st, me, success, batch) ==
  IF success /\ batch # <<>> THEN fetchLoop(st, me, BatchMessages(batch)) ELSE st

\* The messageIds a variant of fetchOfflineMessages would send whatever the
\* response was.
markOfflineMessagesAsReadAlways(success, batch) ==
  {batch[i] : i \in DOMAIN batch}

\* The messageIds fetchOfflineMessages() passes to markOfflineMessagesAsRead:
\* response.data.map(msg => msg.id), inside the branch taken for a successful
\* response with at least one message; the empty set stands for "no call".
markOfflineMessagesAsRead(success, batch) ==
  IF success /\ batch # <<>>
  THEN {BatchMessages(batch)[i].id : i \in DOMAIN batch}
  ELSE {}

\* syncFromServer(): loadConversationsFromServer, then fetchOfflineMessages.
\* S is the set of peers the conversations endpoint lists, batch the offline
\* messages the server returns, ackOk whether markOfflineMessagesAsRead
\* reaches the server.
ChatSyncFromServer(convOk, S, offOk, batch, ackOk) ==
  /\ UNCHANGED wsVars
  /\ chat_pc = "syncFromServer"
  /\ \A i \in DOMAIN batch : batch[i] \notin chat_offlineAcked
  /\ chat_pc' = "idle"
  /\ TotalRows(chat_messageCache) + Len(batch) <= MaxRows
  /\ LET st1 == loadConversationsFromServer(Store, convOk, S)
         st2 == fetchOfflineMessages(st1, chat_currentUserId, offOk, batch)
     IN /\ chat_messageCache' = st2.cache
        /\ chat_conversationCache' = st2.convs
        /\ chat_stored' =
             [convs |-> IF convOk THEN st1.convs ELSE chat_stored.convs,
              msgs |-> IF offOk THEN chat_stored.msgs \o BatchMessages(batch)
                       ELSE chat_stored.msgs]
        /\ chat_offlineAcked' =
             IF ackOk
             THEN chat_offlineAcked \cup markOfflineMessagesAsRead(offOk, batch)
             ELSE chat_offlineAcked
  /\ UNCHANGED <<chat_currentUserId, chat_wsListeners, chat_sentLog>>

\* disconnect(): removeWebSocketListeners() passes a fresh {} to
\* removeMessageListener, whose indexOf finds nothing, so no listener leaves.
ChatDisconnect ==
  /\ UNCHANGED wsVars
  /\ chat_currentUserId # NoUser
  /\ chat_currentUserId' = NoUser
  /\ UNCHANGED <<chat_messageCache, chat_conversationCache, chat_wsListeners,
                 chat_pc, chat_stored, chat_sentLog, chat_offlineAcked>>

\* sendMessage(receiverId, message)
ChatSendMessage(receiverId, message) ==
  /\ UNCHANGED wsVars
  /\ Len(chat_sentLog) < MaxSends
  /\ TotalRows(chat_messageCache) < MaxRows
  /\ LET key == KeyBase + Len(chat_sentLog) + 1
         t == SendTime(Len(chat_sentLog) + 1)
         localMessage ==
           [NewChatMessage(chat_currentUserId, receiverId, message, Undefined, t)
              EXCEPT !.createdAt = t, !.senderName = MyName, !.key = key]
     IN /\ chat_messageCache' = addMessageToCache(chat_messageCache, receiverId, localMessage)
        /\ chat_stored' = [chat_stored EXCEPT !.msgs = Append(@, localMessage)]
        /\ chat_sentLog' = Append(chat_sentLog,
             [key |-> key, senderId |-> chat_currentUserId, receiverId |-> receiverId,
              message |-> message, createdAt |-> t, handed |-> TRUE])
  /\ UNCHANGED <<chat_currentUserId, chat_conversationCache, chat_wsListeners,
                 chat_pc, chat_offlineAcked>>

\* sendMessage(receiverId, message) when the write of saveMessage fails: the
\* awaited promise rejects, sendMessage has no try block, and its own promise
\* rejects before sendPrivateMessage is reached.
ChatSendMessageSaveFails(receiverId, message) ==
  /\ UNCHANGED wsVars
  /\ Len(chat_sentLog) < MaxSends
  /\ TotalRows(chat_messageCache) < MaxRows
  /\ LET key == KeyBase + Len(chat_sentLog) + 1
         t == SendTime(Len(chat_sentLog) + 1)
         localMessage ==
           [NewChatMessage(chat_currentUserId, receiverId, message, Undefined, t)
              EXCEPT !.createdAt = t, !.senderName = MyName, !.key = key]
     IN /\ chat_messageCache' = addMessageToCache(chat_messageCache, receiverId, localMessage)
        /\ chat_sentLog' = Append(chat_sentLog,
             [key |-> key, senderId |-> chat_currentUserId, receiverId |-> receiverId,
              message |-> message, createdAt |-> t, handed |-> FALSE])
  /\ UNCHANGED <<chat_currentUserId, chat_conversationCache, chat_wsListeners,
                 chat_pc, chat_stored, chat_offlineAcked>>

\* markAsRead(senderId)
ChatMarkAsRead(senderId) ==
  /\ UNCHANGED wsVars
  /\ chat_messageCache' = MarkRead(chat_messageCache, senderId)
  /\ chat_conversationCache' =
       updateConversationUnreadCount(chat_conversationCache, senderId, 0)
  /\ chat_stored' = [chat_stored EXCEPT !.msgs = StoredMarkRead(@, senderId)]
  /\ UNCHANGED <<chat_currentUserId, chat_wsListeners, chat_pc,
                 chat_sentLog, chat_offlineAcked>>

\* markAsRead(senderId) when the write of markMessagesAsRead fails: the
\* cache and the list are changed already, the stored rows stay, and the
\* promise rejects before webSocketManager.markAsRead is reached.
ChatMarkAsReadSaveFails(senderId) ==
  /\ UNCHANGED wsVars
  /\ chat_messageCache' = MarkRead(chat_messageCache, senderId)
  /\ chat_conversationCache' =
       updateConversationUnreadCount(chat_conversationCache, senderId, 0)
  /\ <<chat_messageCache, chat_conversationCache>>'
       # <<chat_messageCache, chat_conversationCache>>
  /\ UNCHANGED <<chat_currentUserId, chat_wsListeners, chat_pc, chat_stored,
                 chat_sentLog, chat_offlineAcked>>

\* getMessages(otherUserId)
ChatGetMessages(otherUserId) ==
  /\ UNCHANGED wsVars
  /\ Get(chat_messageCache, otherUserId) = <<>>
  /\ TotalRows(chat_messageCache)
       + Len(StoredWithUser(chat_stored.msgs, otherUserId)) <= MaxRows
  /\ chat_messageCache' =
       Set(chat_messageCache, otherUserId,
           StoredWithUser(chat_stored.msgs, otherUserId))
  /\ UNCHANGED <<chat_currentUserId, chat_conversationCache, chat_wsListeners,
                 chat_pc, chat_stored, chat_sentLog, chat_offlineAcked>>

\* An inbound message reaches handleNewMessage through every listener object
\* this manager registered; saveMessage is not awaited.
ChatIngest(message) ==
  /\ UNCHANGED wsVars
  /\ chat_wsListeners > 0
  /\ TotalRows(chat_messageCache) + chat_wsListeners <= MaxRows
  /\ LET st == handleOfflineMessages(Store, chat_currentUserId,
                                      Copies(chat_wsListeners, <<message>>))
     IN /\ chat_messageCache' = st.cache
        /\ chat_conversationCache' = st.convs
  /\ chat_stored' = [chat_stored EXCEPT !.msgs =
                       @ \o [i \in 1..chat_wsListeners |-> message]]
  /\ UNCHANGED <<chat_currentUserId, chat_wsListeners, chat_pc,
                 chat_sentLog, chat_offlineAcked>>

\* receive_private_message carrying server message k.
ChatOnPrivateMessage(k) ==
  ChatIngest(MessageFromJson(ServerMsgJson(k), Undefined))

\* receive_private_message carrying server message k when the writes of
\* saveMessage fail: the promise is not awaited, handleNewMessage goes on to
\* notifyMessageReceived.
ChatOnPrivateMessageSaveFails(k) ==
  /\ UNCHANGED wsVars
  /\ chat_wsListeners > 0
  /\ TotalRows(chat_messageCache) + chat_wsListeners <= MaxRows
  /\ LET st == handleOfflineMessages(Store, chat_currentUserId,
                  Copies(chat_wsListeners, <<MessageFromJson(ServerMsgJson(k), Undefined)>>))
     IN /\ chat_messageCache' = st.cache
        /\ chat_conversationCache' = st.convs
  /\ UNCHANGED <<chat_currentUserId, chat_wsListeners, chat_pc, chat_stored,
                 chat_sentLog, chat_offlineAcked>>

\* receive_private_message carrying the server's copy of a message this
\* client sent.
ChatOnEcho(i) ==
  /\ i \in DOMAIN chat_sentLog
  /\ chat_sentLog[i].handed
  /\ ChatIngest(MessageFromJson(EchoJson(chat_sentLog[i]), Undefined))

\* offline_messages carrying a batch.
ChatOnOfflineMessages(batch) ==
  /\ UNCHANGED wsVars
  /\ chat_wsListeners > 0
  /\ TotalRows(chat_messageCache) + chat_wsListeners * Len(batch) <= MaxRows
  /\ LET messages == BatchMessages(batch)
         st == handleOfflineMessages(Store, chat_currentUserId,
                                     Copies(chat_wsListeners, messages))
     IN /\ chat_messageCache' = st.cache
        /\ chat_conversationCache' = st.convs
        /\ chat_stored' = [chat_stored EXCEPT !.msgs =
                             @ \o Copies(chat_wsListeners, messages)]
  /\ UNCHANGED <<chat_currentUserId, chat_wsListeners, chat_pc,
                 chat_sentLog, chat_offlineAcked>>

\* message_read{readerId}: handleMessageRead through every listener object.
ChatOnMessageRead(readerId) ==
  /\ UNCHANGED wsVars
  /\ chat_wsListeners > 0
  /\ chat_messageCache' = MarkRead(chat_messageCache, readerId)
  /\ UNCHANGED <<chat_currentUserId, chat_conversationCache, chat_wsListeners,
                 chat_pc, chat_stored, chat_sentLog, chat_offlineAcked>>

ChatNext ==
  \/ ChatConnect(Me)
  \/ \E convOk, offOk, ackOk \in BOOLEAN, S \in SUBSET Peers,
          batch \in Batches \cup {<<>>} :
       ChatSyncFromServer(convOk, S, offOk, batch, ackOk)
  \/ ChatDisconnect
  \/ \E r \in Peers, m \in Texts : ChatSendMessage(r, m)
  \/ \E p \in Peers : ChatMarkAsRead(p)
  \/ \E p \in Peers : ChatGetMessages(p)
  \/ \E k \in ServerMsgIds : ChatOnPrivateMessage(k)
  \/ \E i \in 1..MaxSends : ChatOnEcho(i)
  \/ \E batch \in Batches : ChatOnOfflineMessages(batch)
  \/ \E p \in Peers : ChatOnMessageRead(p)

-----------------------------------------------------------------------------
\* Properties of the message store of ChatManager.ets.

\* The places of all rows of the message cache.
RowRefs(cache) == UNION {{<<k, i>> : i \in DOMAIN cache[k]} : k \in DOMAIN cache}

\* The number of rows of the message cache that carry the key of a sent
\* message.
CountRows(cache, key) ==
  Cardinality({r \in RowRefs(cache) : cache[r[1]][r[2]].key = key})

\* The unread count the conversation list shows for peer p: the sum over the
\* entries made for p.
UnreadOf(convs, p) ==
  SeqSum([i \in DOMAIN convs |-> IF convs[i].peer = p THEN convs[i].unreadCount ELSE 0])

\* C2: ingest is idempotent. From every reachable store, handling the same
\* confirmed message (same id) twice leaves the message cache and the
\* conversation list as handling it once does.
C2_IngestIdempotent ==
  \A k \in ServerMsgIds :
    LET m == MessageFromJson(ServerMsgJson(k), Undefined)
        once == handleNewMessage(Store, chat_currentUserId, m)
        twice == handleNewMessage(once, chat_currentUserId, m)
    IN twice = once

\* C3: a message created by sendMessage and its server-confirmed counterpart
\* (the inbound message with the same sender, receiver, time and body) are
\* one entry of the store, never two.
C3_PendingAndConfirmedAreOneEntry ==
  \A i \in DOMAIN chat_sentLog :
    CountRows(chat_messageCache, chat_sentLog[i].key) <= 1

\* C4: markAsRead(p) leaves the conversation for peer p with unreadCount 0
\* and every cached message from p read; the read flags of messages from the
\* other peers and the unread counts of the other conversations stay as they
\* were.
C4_MarkAsReadEffect ==
  [][\A p \in Peers :
       ChatMarkAsRead(p) =>
         /\ \A i \in DOMAIN chat_conversationCache' :
              chat_conversationCache'[i].peer = p
                => chat_conversationCache'[i].unreadCount = 0
         /\ \A r \in RowRefs(chat_messageCache') :
              chat_messageCache'[r[1]][r[2]].senderId = p
                => chat_messageCache'[r[1]][r[2]].isRead
         /\ DOMAIN chat_messageCache' = DOMAIN chat_messageCache
         /\ \A r \in RowRefs(chat_messageCache) :
              chat_messageCache[r[1]][r[2]].senderId # p
                => chat_messageCache'[r[1]][r[2]] = chat_messageCache[r[1]][r[2]]
         /\ Len(chat_conversationCache') = Len(chat_conversationCache)
         /\ \A i \in DOMAIN chat_conversationCache :
              chat_conversationCache[i].peer # p
                => chat_conversationCache'[i] = chat_conversationCache[i]]_vars

\* The batch holds messages of peer p only.
FromOnePeer(batch, p) == \A i \in DOMAIN batch : SenderOf(batch[i]) = p

\* The store holds the batch as one delivery leaves it: the rows from p are
\* the messages of the batch, and p's unread count is their number.
DeliveredOnce(batch, p) ==
  /\ Get(chat_messageCache, p) = BatchMessages(batch)
  /\ UnreadOf(chat_conversationCache, p) = Len(batch)

\* C8: an offline batch of k messages from one peer that is delivered a
\* second time (a repeated offline_messages event, or the HTTP fetch
\* returning it again) leaves k rows from the peer and an unread count of k.
C8_DuplicateBatchCountsOnce ==
  [][\A batch \in Batches, p \in Peers :
       /\ FromOnePeer(batch, p)
       /\ DeliveredOnce(batch, p)
       /\ \/ ChatOnOfflineMessages(batch)
          \/ \E convOk, ackOk \in BOOLEAN, S \in SUBSET Peers :
               ChatSyncFromServer(convOk, S, TRUE, batch, ackOk)
       => /\ Len(Get(chat_messageCache', p)) = Len(batch)
          /\ UnreadOf(chat_conversationCache', p) = Len(batch)]_vars

\* C10: the conversation list holds at most one conversation per otherUserId.
C10_OneConversationPerPeer ==
  \A i, j \in DOMAIN chat_conversationCache :
    chat_conversationCache[i].otherUserId = chat_conversationCache[j].otherUserId
      => i = j

\* The rows of the message cache that come from peer p and are not read.
UnreadRows(cache, p) ==
  {r \in RowRefs(cache) : cache[r[1]][r[2]].senderId = p /\ ~cache[r[1]][r[2]].isRead}

\* C11: the unreadCount of every conversation of the list is the number of
\* messages from its peer that the message cache holds unread.
C11_UnreadCountMatchesStore ==
  \A i \in DOMAIN chat_conversationCache :
    chat_conversationCache[i].unreadCount =
      Cardinality(UnreadRows(chat_messageCache, chat_conversationCache[i].peer))

\* C12: the conversation list getConversations() returns is ordered by
\* lastMessageTime, most recent first.
C12_ConversationsNewestFirst ==
  \A i, j \in DOMAIN chat_conversationCache :
    i < j => chat_conversationCache[i].lastMessageTime
               >= chat_conversationCache[j].lastMessageTime

\* C20: a receive_private_message frame adds exactly one row to the message
\* cache, however often connect() and disconnect() were called before.
C20_InboundMessageStoredOnce ==
  [][\A k \in ServerMsgIds :
       ChatOnPrivateMessage(k)
         => TotalRows(chat_messageCache') = TotalRows(chat_messageCache) + 1]_vars

\* C21: the conversation list survives a disconnect/reconnect cycle. When
\* connect() is called after a disconnect(), no inbound message and no
\* markAsRead in between, every conversation the list held is still in the
\* list after loadLocalData(), with the same lastMessage and unreadCount.
C21_ConversationsSurviveReconnect ==
  [][/\ chat_currentUserId = NoUser
     /\ chat_wsListeners > 0
     /\ ChatConnect(Me)
     => \A i \in DOMAIN chat_conversationCache :
          \E j \in DOMAIN chat_conversationCache' :
            /\ chat_conversationCache'[j].peer = chat_conversationCache[i].peer
            /\ chat_conversationCache'[j].lastMessage
                 = chat_conversationCache[i].lastMessage
            /\ chat_conversationCache'[j].unreadCount
                 = chat_conversationCache[i].unreadCount]_vars

\* The first conversation of the list is the one of peer p and shows text as
\* its last message.
FrontIs(convs, p, text) ==
  /\ convs # <<>>
  /\ convs[1].peer = p
  /\ convs[1].lastMessage = text

\* C22: sending a message to peer r and ingesting a message of peer p both
\* leave the conversation of that peer at the front of the list with the
\* message as its last message; sending leaves the peer's unread count as it
\* was, ingesting a message of another user raises it by one.
C22_MessageUpdatesConversation ==
  [][/\ \A r \in Peers, m \in Texts :
          ChatSendMessage(r, m)
            => /\ FrontIs(chat_conversationCache', r, m)
               /\ UnreadOf(chat_conversationCache', r)
                    = UnreadOf(chat_conversationCache, r)
     /\ \A k \in ServerMsgIds :
          ChatOnPrivateMessage(k)
            => /\ FrontIs(chat_conversationCache', SenderOf(k), TextBase + k)
               /\ UnreadOf(chat_conversationCache', SenderOf(k))
                    = UnreadOf(chat_conversationCache, SenderOf(k)) + 1]_vars

\* C23: a message_read frame naming peer p leaves every cached message from p
\* read and the unread count of p's conversation at 0.
C23_MessageReadClearsUnread ==
  [][\A p \in Peers :
       ChatOnMessageRead(p)
         => /\ \A r \in RowRefs(chat_messageCache') :
                 chat_messageCache'[r[1]][r[2]].senderId = p
                   => chat_messageCache'[r[1]][r[2]].isRead
            /\ \A i \in DOMAIN chat_conversationCache' :
                 chat_conversationCache'[i].peer = p
                   => chat_conversationCache'[i].unreadCount = 0]_vars

\* The server messages a step adds a row for to the message cache.
Ingested ==
  {k \in ServerMsgIds :
     CountRows(chat_messageCache', k) > CountRows(chat_messageCache, k)}

\* The server messages the store holds a saved copy of that no
\* acknowledgment reached the server for.
Unacknowledged ==
  {k \in ServerMsgIds \ chat_offlineAcked :
     \E i \in DOMAIN chat_stored.msgs : chat_stored.msgs[i].key = k}

\* C24: a sync (the step that ends syncFromServer) that follows one whose
\* acknowledgment failed does not ingest
\* the messages of that batch again: the message cache holds as many rows of
\* them after the sync as before.
C24_FailedAckNotReingested ==
  [][(chat_pc = "syncFromServer" /\ chat_pc' = "idle")
       => \A k \in Unacknowledged :
            CountRows(chat_messageCache', k) = CountRows(chat_messageCache, k)]_vars

C30_SaveFailureDoesNotBlockSend ==
  [][\A r \in Peers, m \in Texts :
       ChatSendMessageSaveFails(r, m)
         => LET sent == chat_sentLog'[Len(chat_sentLog')]
            IN /\ CountRows(chat_messageCache', sent.key) = 1
               /\ sent.handed]_vars

-----------------------------------------------------------------------------
\* common/push/PushManager.ets, class WebSocketManager: the manager that
\* queues frames while it is not connected. resetReconnectAttempts,
\* setReconnectConfig and clearMessageQueue have no caller in the repository
\* and are left out; no listener is ever registered with addListener.

MaxSockets == 2        \* sockets one manager creates
MaxEmits == 3          \* emit calls of the application
MaxSendFailures == 1   \* ws.send rejections on a socket that is open
MaxTimers == 2         \* reconnect timers pending at once
MaxReplays == 1        \* sendQueuedMessages calls suspended at once
MaxQueue == 3          \* length of messageQueue

MaxRetrySockets == 8   \* sockets, where only the reconnecting is followed
MaxRetryTimers == 4    \* reconnect timers pending at once there

PushMaxReconnectAttempts == 5
PushReconnectDelay == 1000

\* The bounds in force.
SocketBound == IF ws_variant = "retry" THEN MaxRetrySockets ELSE MaxSockets
TimerBound == IF ws_variant = "retry" THEN MaxRetryTimers ELSE MaxTimers

\* A socket is "connecting" from createWebSocket() on, "open" after its open
\* event, "errored" after an error event, "rejected" once ws.connect() has
\* rejected, "closing" after close() was called on it, and "dead" after its
\* close event ("closed" when disconnect() had called close() on it). Only an
\* open socket takes a frame.
Live == {"connecting", "open", "errored", "rejected", "closing"}

RECURSIVE Pow2(_)
Pow2(n) == IF n = 0 THEN 1 ELSE 2 * Pow2(n - 1)

\* scheduleReconnect without the backoff factor.
PushDelayFlat(n) == PushReconnectDelay

\* The delay scheduleReconnect computes once reconnectAttempts is n.
PushDelay(n) == PushReconnectDelay * Pow2(n - 1)

\* scheduleReconnect(): the counter, the pending timers and the history after
\* it. The history counts the failure whether or not a timer is armed.
PushScheduleReconnect(attempts, timers, hist) ==
  LET failed == [hist EXCEPT !.failures = IF @ > PushMaxReconnectAttempts THEN @ ELSE @ + 1]
  IN IF attempts >= PushMaxReconnectAttempts
     THEN [attempts |-> attempts, timers |-> timers, hist |-> failed]
     ELSE [attempts |-> attempts + 1,
           timers |-> Append(timers, PushDelay(attempts + 1)),
           hist |-> [failed EXCEPT !.lastArmed =
                       [delay |-> PushDelay(attempts + 1), failures |-> failed.failures,
                        prior |-> hist.prior]]]

\* Whether ws.send on socket w may resolve (ok) or reject.
SendOutcome(socks, w, hist, ok) ==
  IF ok THEN socks[w] = "open"
  ELSE socks[w] # "open" \/ hist.sendFailures < MaxSendFailures

\* The history after ws.send(f) on socket w settled as ok says.
Sent(socks, w, hist, f, ok) ==
  IF ok THEN [hist EXCEPT !.transport = Append(@, [f |-> f, s |-> w])]
  ELSE IF socks[w] = "open" THEN [hist EXCEPT !.sendFailures = @ + 1]
  ELSE hist

\* The array a suspended sendQueuedMessages call iterates: this.messageQueue
\* as long as nobody reassigned it, the array it started on afterwards.
ReplayArray(r, queue) == IF r.shared THEN queue ELSE r.arr

\* this.messageQueue = [] : the calls still iterating the old array keep it.
Detach(replays, old) ==
  [i \in DOMAIN replays |->
     IF replays[i].shared THEN [replays[i] EXCEPT !.shared = FALSE, !.arr = old]
     ELSE replays[i]]

\* The for-of loop of sendQueuedMessages from element j on, up to its next
\* suspension at ws.send. queue is this.messageQueue, r the call, others the
\* other suspended calls. The result names the queue, the suspended calls,
\* the history, and whether the loop can no longer end.
sendQueuedMessages(queue, r, others, j, connected, w, socks, hist, ok) ==
  LET arr == ReplayArray(r, queue) IN
  IF j > Len(arr)
  THEN \* loop over: this.messageQueue = []
       [queue |-> <<>>, replays |-> Detach(others, queue), hist |-> hist, hung |-> FALSE]
  ELSE IF connected /\ w # 0
  THEN \* emit(): await this.ws.send(...)
       [queue |-> queue,
        replays |-> Append(others, [r EXCEPT !.idx = j, !.ok = ok]),
        hist |-> Sent(socks, w, hist, arr[j], ok), hung |-> FALSE]
  ELSE IF r.shared
  THEN \* emit() pushes onto the array being iterated, without suspending:
       \* every turn of the loop appends one more element
       [queue |-> queue, replays |-> others, hist |-> hist, hung |-> TRUE]
  ELSE \* emit() pushes the rest of the old array onto this.messageQueue,
       \* then the loop ends and this.messageQueue = [] drops it
       [queue |-> <<>>,
        replays |-> Detach(others, queue \o SubSeq(arr, j, Len(arr))),
        hist |-> hist, hung |-> FALSE]

PushRuns == ws_variant \in {"push", "retry"} /\ ~push_hung

PushFrame == UNCHANGED <<chatVars, ws_variant, apiVars, listenerVars>>

\* connect() up to its await, called by init() or by the application.
PushConnect ==
  /\ PushRuns
  /\ ~push_isConnected
  /\ Len(push_socks) < SocketBound
  /\ push_socks' = Append(push_socks, "connecting")
  /\ push_ws' = Len(push_socks) + 1
  /\ UNCHANGED <<push_isConnected, push_reconnectAttempts, push_timers,
                 push_messageQueue, push_replays, push_requeue, push_hung, push_hist>>
  /\ PushFrame

\* A reconnect timer fires: connect().
PushTimerFires(i) ==
  /\ PushRuns
  /\ i \in DOMAIN push_timers
  /\ push_timers' = RemoveAt(push_timers, i)
  /\ IF push_isConnected
     THEN UNCHANGED <<push_socks, push_ws, push_hist>>
     ELSE /\ Len(push_socks) < SocketBound
          /\ push_socks' = Append(push_socks, "connecting")
          /\ push_ws' = Len(push_socks) + 1
          /\ push_hist' = [push_hist EXCEPT !.auto = @ + 1]
  /\ UNCHANGED <<push_isConnected, push_reconnectAttempts, push_messageQueue,
                 push_replays, push_requeue, push_hung>>
  /\ PushFrame

\* ws.connect(url) rejects: the catch block of connect().
PushConnectRejects(s) ==
  /\ PushRuns
  /\ s \in DOMAIN push_socks
  /\ push_socks[s] \in {"connecting", "errored"}
  /\ push_reconnectAttempts >= PushMaxReconnectAttempts \/ Len(push_timers) < TimerBound
  /\ push_socks' = [push_socks EXCEPT ![s] = "rejected"]
  /\ LET sch == PushScheduleReconnect(push_reconnectAttempts, push_timers, push_hist)
     IN /\ push_reconnectAttempts' = sch.attempts
        /\ push_timers' = sch.timers
        /\ push_hist' = sch.hist
  /\ UNCHANGED <<push_isConnected, push_ws, push_messageQueue, push_replays,
                 push_requeue, push_hung>>
  /\ PushFrame

\* An open handler that leaves the counter alone.
PushAttemptsKept(attempts) == attempts

\* this.reconnectAttempts = 0 in the open handler.
PushAttemptsAfterOpen(attempts) == 0

\* The open event of socket s: isConnected, the counter, then
\* sendQueuedMessages() up to its first await (the listeners' onConnect would
\* follow; none is registered).
PushOnOpen(s, ok) ==
  /\ PushRuns
  /\ s \in DOMAIN push_socks
  /\ push_socks[s] = "connecting"
  /\ push_socks' = [push_socks EXCEPT ![s] = "open"]
  /\ push_isConnected' = TRUE
  /\ push_reconnectAttempts' = PushAttemptsAfterOpen(push_reconnectAttempts)
  /\ LET hist == [push_hist EXCEPT !.prior = push_hist.failures,
                                    !.failures = 0,
                                    !.auto = 0,
                                    !.openAt = Len(push_hist.transport),
                                    !.openQ = push_messageQueue]
     IN IF push_messageQueue = <<>>
        THEN /\ ok
             /\ push_hist' = hist
             /\ UNCHANGED <<push_messageQueue, push_replays, push_hung>>
        ELSE /\ Len(push_replays) < MaxReplays
             /\ SendOutcome(push_socks', push_ws, hist, ok)
             /\ LET run == sendQueuedMessages(push_messageQueue,
                             [shared |-> TRUE, arr |-> <<>>, idx |-> 0, ok |-> TRUE],
                             push_replays, 1, TRUE, push_ws, push_socks', hist, ok)
                IN /\ push_messageQueue' = run.queue
                   /\ push_replays' = run.replays
                   /\ push_hist' = run.hist
                   /\ push_hung' = run.hung
  /\ UNCHANGED <<push_ws, push_timers, push_requeue>>
  /\ PushFrame

\* The close event of socket s.
PushOnClose(s) ==
  /\ PushRuns
  /\ s \in DOMAIN push_socks
  /\ push_socks[s] \in Live
  /\ push_reconnectAttempts >= PushMaxReconnectAttempts \/ Len(push_timers) < TimerBound
  /\ push_socks' = [push_socks EXCEPT ![s] = IF @ = "closing" THEN "closed" ELSE "dead"]
  /\ push_isConnected' = FALSE
  /\ LET sch == PushScheduleReconnect(push_reconnectAttempts, push_timers, push_hist)
     IN /\ push_reconnectAttempts' = sch.attempts
        /\ push_timers' = sch.timers
        /\ push_hist' = sch.hist
  /\ UNCHANGED <<push_ws, push_messageQueue, push_replays, push_requeue, push_hung>>
  /\ PushFrame

\* The error event of socket s: the listeners are told, nothing else.
PushOnError(s) ==
  /\ PushRuns
  /\ s \in DOMAIN push_socks
  /\ push_socks[s] \in {"connecting", "open"}
  /\ push_socks' = [push_socks EXCEPT ![s] = "errored"]
  /\ UNCHANGED <<push_isConnected, push_ws, push_reconnectAttempts, push_timers,
                 push_messageQueue, push_replays, push_requeue, push_hung, push_hist>>
  /\ PushFrame

\* A disconnect() that empties the queue.
PushQueueDroppedOnDisconnect(queue) == <<>>

\* messageQueue after disconnect(): the method closes the socket and clears
\* isConnected, and has no statement on the queue.
PushQueueAfterDisconnect(queue) == queue

\* disconnect()
PushDisconnect ==
  /\ PushRuns
  /\ push_ws # 0
  /\ push_isConnected
  /\ push_socks' = [push_socks EXCEPT ![push_ws] = IF @ \in Live THEN "closing" ELSE @]
  /\ push_isConnected' = FALSE
  /\ push_messageQueue' = PushQueueAfterDisconnect(push_messageQueue)
  /\ UNCHANGED <<push_ws, push_reconnectAttempts, push_timers,
                 push_replays, push_requeue, push_hung, push_hist>>
  /\ PushFrame

\* emit(event, data) called by the application, up to its await. The frames
\* are numbered in call order.
PushEmit(ok) ==
  /\ PushRuns
  /\ push_hist.emitted < MaxEmits
  /\ LET f == push_hist.emitted + 1
         hist == [push_hist EXCEPT !.emitted = f]
     IN IF push_isConnected /\ push_ws # 0
        THEN /\ SendOutcome(push_socks, push_ws, hist, ok)
             /\ push_hist' = Sent(push_socks, push_ws, hist, f, ok)
             /\ push_requeue' = IF ok THEN push_requeue ELSE Append(push_requeue, f)
             /\ UNCHANGED push_messageQueue
        ELSE /\ ok
             /\ Len(push_messageQueue) < MaxQueue
             /\ push_messageQueue' = Append(push_messageQueue, f)
             /\ push_hist' = hist
             /\ UNCHANGED push_requeue
  /\ UNCHANGED <<push_isConnected, push_ws, push_socks, push_reconnectAttempts,
                 push_timers, push_replays, push_hung>>
  /\ PushFrame

\* The catch block of an emit call of the application.
PushEmitCatch(i) ==
  /\ PushRuns
  /\ i \in DOMAIN push_requeue
  /\ Len(push_messageQueue) < MaxQueue
  /\ push_messageQueue' = Append(push_messageQueue, push_requeue[i])
  /\ push_requeue' = RemoveAt(push_requeue, i)
  /\ UNCHANGED <<push_isConnected, push_ws, push_socks, push_reconnectAttempts,
                 push_timers, push_replays, push_hung, push_hist>>
  /\ PushFrame

\* A suspended sendQueuedMessages call resumes: the catch block of its emit
\* if the send rejected, then the loop up to the next await.
PushReplayResumes(i, ok) ==
  /\ PushRuns
  /\ i \in DOMAIN push_replays
  /\ LET r == push_replays[i]
         others == RemoveAt(push_replays, i)
         queue == IF r.ok THEN push_messageQueue
                  ELSE Append(push_messageQueue, ReplayArray(r, push_messageQueue)[r.idx])
         arr == ReplayArray(r, queue)
         sends == r.idx + 1 <= Len(arr) /\ push_isConnected /\ push_ws # 0
         run == sendQueuedMessages(queue, r, others, r.idx + 1, push_isConnected,
                                   push_ws, push_socks, push_hist, ok)
     IN /\ Len(queue) <= MaxQueue
        /\ IF sends THEN SendOutcome(push_socks, push_ws, push_hist, ok) ELSE ok
        /\ push_messageQueue' = run.queue
        /\ push_replays' = run.replays
        /\ push_hist' = run.hist
        /\ push_hung' = run.hung
  /\ UNCHANGED <<push_isConnected, push_ws, push_socks, push_reconnectAttempts,
                 push_timers, push_requeue>>
  /\ PushFrame

\* The message event carrying message_sent for frame f: the listeners are
\* told; the manager keeps no record of it.
PushOnMessageSent(f) ==
  /\ PushRuns
  /\ f \notin push_hist.acked
  /\ \E i \in DOMAIN push_hist.transport :
       /\ push_hist.transport[i].f = f
       /\ push_socks[push_hist.transport[i].s] = "open"
  /\ push_hist' = [push_hist EXCEPT !.acked = @ \cup {f}]
  /\ UNCHANGED <<push_isConnected, push_ws, push_socks, push_reconnectAttempts,
                 push_timers, push_messageQueue, push_replays, push_requeue, push_hung>>
  /\ PushFrame

PushNext ==
  \/ PushConnect
  \/ \E i \in 1..MaxTimers : PushTimerFires(i)
  \/ \E s \in 1..MaxSockets : PushConnectRejects(s)
  \/ \E s \in 1..MaxSockets, ok \in BOOLEAN : PushOnOpen(s, ok)
  \/ \E s \in 1..MaxSockets : PushOnClose(s)
  \/ \E s \in 1..MaxSockets : PushOnError(s)
  \/ PushDisconnect
  \/ \E ok \in BOOLEAN : PushEmit(ok)
  \/ \E i \in 1..MaxEmits : PushEmitCatch(i)
  \/ \E i \in 1..MaxReplays, ok \in BOOLEAN : PushReplayResumes(i, ok)
  \/ \E f \in 1..MaxEmits : PushOnMessageSent(f)

-----------------------------------------------------------------------------
\* common/api/WebSocketManager.ets: the manager the pages use. It has no
\* queue: emit returns without sending when the status is not connected.

MaxFrames == 1         \* inbound frames one manager handles

ApiMaxReconnectAttempts == 5
ApiReconnectDelay == 3000

\* The delay scheduleReconnect computes once reconnectAttempts is n.
ApiDelay(n) == ApiReconnectDelay * n

\* scheduleReconnect(): the counter, the pending timer and the history after
\* it. clearTimeout and setTimeout replace the pending timer by the new one.
ApiScheduleReconnect(attempts, timer, hist) ==
  LET failed == [hist EXCEPT !.failures = IF @ > ApiMaxReconnectAttempts THEN @ ELSE @ + 1]
  IN IF attempts >= ApiMaxReconnectAttempts
     THEN [attempts |-> attempts, timer |-> timer, hist |-> failed]
     ELSE [attempts |-> attempts + 1,
           timer |-> ApiDelay(attempts + 1),
           hist |-> [failed EXCEPT !.lastArmed =
                       [delay |-> ApiDelay(attempts + 1), failures |-> failed.failures,
                        prior |-> hist.prior]]]

\* this.reconnectAttempts = 0 in the open handler.
ApiAttemptsAfterOpen(attempts) == 0

ApiRuns == ws_variant = "api"

ApiFrame == UNCHANGED <<chatVars, ws_variant, pushVars, listenerVars>>

\* connect(url) up to its await, called by the application.
ApiConnect ==
  /\ ApiRuns
  /\ api_status \notin {"connecting", "connected"}
  /\ Len(api_socks) < SocketBound
  /\ api_status' = "connecting"
  /\ api_socks' = Append(api_socks, "connecting")
  /\ api_webSocket' = Len(api_socks) + 1
  /\ UNCHANGED <<api_reconnectTimer, api_reconnectAttempts, api_hist>>
  /\ ApiFrame

\* The reconnect timer fires: connect(this.url).
ApiTimerFires ==
  /\ ApiRuns
  /\ api_reconnectTimer # 0
  /\ api_reconnectTimer' = 0
  /\ IF api_status \in {"connecting", "connected"}
     THEN UNCHANGED <<api_status, api_socks, api_webSocket>>
     ELSE /\ Len(api_socks) < SocketBound
          /\ api_status' = "connecting"
          /\ api_socks' = Append(api_socks, "connecting")
          /\ api_webSocket' = Len(api_socks) + 1
  /\ UNCHANGED <<api_reconnectAttempts, api_hist>>
  /\ ApiFrame

\* The open event of socket s. notifyConnectionListeners('connected') calls
\* onConnected of every connection listener; the one ChatManager registers
\* passes the event on to its own listeners (notifyConnected) and leaves the
\* manager as it is.
ApiOnOpen(s) ==
  /\ ApiRuns
  /\ s \in DOMAIN api_socks
  /\ api_socks[s] = "connecting"
  /\ api_socks' = [api_socks EXCEPT ![s] = "open"]
  /\ api_status' = "connected"
  /\ api_reconnectAttempts' = ApiAttemptsAfterOpen(api_reconnectAttempts)
  /\ api_hist' = [api_hist EXCEPT !.prior = api_hist.failures, !.failures = 0,
                                   !.note = "connected"]
  /\ UNCHANGED <<api_webSocket, api_reconnectTimer>>
  /\ ApiFrame

\* The handlers that end in scheduleReconnect(): the close event, the error
\* event and the catch block of connect(). Each sets the status, tells the
\* connection listeners (note), then calls scheduleReconnect().
ApiFails(s, from, to, status, note) ==
  /\ ApiRuns
  /\ s \in DOMAIN api_socks
  /\ api_socks[s] \in from
  /\ api_socks' = [api_socks EXCEPT ![s] = to]
  /\ api_status' = status
  /\ LET sch == ApiScheduleReconnect(api_reconnectAttempts, api_reconnectTimer, api_hist)
     IN /\ api_reconnectAttempts' = sch.attempts
        /\ api_reconnectTimer' = sch.timer
        /\ api_hist' = [sch.hist EXCEPT !.note = note]
  /\ UNCHANGED api_webSocket
  /\ ApiFrame

ApiOnClose(s) == ApiFails(s, Live, "dead", "disconnected", "disconnected")

ApiOnError(s) == ApiFails(s, {"connecting", "open"}, "errored", "error", "error")

ApiConnectRejects(s) ==
  ApiFails(s, {"connecting", "errored"}, "rejected", "error", "error")

\* disconnect()
ApiDisconnect ==
  /\ ApiRuns
  /\ api_reconnectTimer' = 0
  /\ api_webSocket' = 0
  /\ api_socks' = IF api_webSocket = 0 THEN api_socks
                  ELSE [api_socks EXCEPT ![api_webSocket] =
                          IF @ \in Live THEN "closing" ELSE @]
  /\ api_status' = "disconnected"
  /\ <<api_reconnectTimer, api_webSocket, api_socks, api_status>>' #
       <<api_reconnectTimer, api_webSocket, api_socks, api_status>>
  /\ api_hist' = [api_hist EXCEPT !.note = "disconnected"]
  /\ UNCHANGED api_reconnectAttempts
  /\ ApiFrame

\* How the promise emit() returns settles: "resolved" after the early return
\* of the not-connected branch and after a send that resolved, "rejected"
\* when the catch block rethrows the error of ws.send.
ApiEmitSettles(connected, ok) ==
  IF ~connected THEN "resolved"
  ELSE IF ok THEN "resolved"
  ELSE "rejected"

\* emit(event, data): nothing is sent and nothing is kept unless the status
\* is connected; a rejected send is rethrown to the caller.
ApiEmit(ok) ==
  /\ ApiRuns
  /\ api_hist.emitted < MaxEmits
  /\ LET f == api_hist.emitted + 1
         connected == ~(api_status # "connected" \/ api_webSocket = 0)
         hist == [api_hist EXCEPT !.emitted = f,
                                  !.settled = Append(@, ApiEmitSettles(connected, ok))]
     IN IF ~connected
        THEN /\ ok
             /\ api_hist' = [hist EXCEPT !.dropped = @ \cup {f}]
        ELSE /\ ok => api_socks[api_webSocket] = "open"
             /\ api_hist' = IF ok
                            THEN [hist EXCEPT !.transport = Append(@, [f |-> f, s |-> api_webSocket])]
                            ELSE hist
  /\ UNCHANGED <<api_status, api_webSocket, api_socks, api_reconnectTimer,
                 api_reconnectAttempts>>
  /\ ApiFrame

\* The inbound frames: text that is not JSON, and JSON messages with an
\* event tag.
KnownEvents == {"receive_private_message", "message_sent", "message_read",
                "online_status", "offline_messages"}

Frames == {[json |-> FALSE, event |-> "none"]}
            \cup {[json |-> TRUE, event |-> e] : e \in KnownEvents \cup {"typing"}}

Malformed == {d \in Frames : ~d.json \/ d.event \notin KnownEvents}

\* handleMessage with a default branch that treats an unknown event as a
\* private message.
handleMessageLenient(data) ==
  [handler |-> IF ~data.json THEN "none"
               ELSE IF data.event \in KnownEvents THEN data.event
               ELSE "receive_private_message",
   escaped |-> FALSE]

\* handleMessage(data): the typed handler the switch calls, "none" when
\* JSON.parse throws (caught by the try block) or the default branch is
\* taken; escaped tells whether an exception leaves the method.
handleMessage(data) ==
  [handler |-> IF ~data.json THEN "none"
               ELSE IF data.event \in KnownEvents THEN data.event
               ELSE "none",
   escaped |-> FALSE]

\* The message event of socket s carrying data.
ApiOnMessage(s, data) ==
  /\ ApiRuns
  /\ s \in DOMAIN api_socks
  /\ api_socks[s] = "open"
  /\ Len(api_hist.inbound) < MaxFrames
  /\ LET r == handleMessage(data)
     IN api_hist' = [api_hist EXCEPT !.inbound =
                       Append(@, [data |-> data, handler |-> r.handler,
                                  escaped |-> r.escaped])]
  /\ UNCHANGED <<api_status, api_webSocket, api_socks, api_reconnectTimer,
                 api_reconnectAttempts>>
  /\ ApiFrame

ApiNext ==
  \/ \E s \in 1..MaxSockets, data \in Frames : ApiOnMessage(s, data)
  \/ ApiConnect
  \/ ApiTimerFires
  \/ \E s \in 1..MaxSockets : ApiOnOpen(s)
  \/ \E s \in 1..MaxSockets : ApiOnClose(s)
  \/ \E s \in 1..MaxSockets : ApiOnError(s)
  \/ \E s \in 1..MaxSockets : ApiConnectRejects(s)
  \/ ApiDisconnect
  \/ \E ok \in BOOLEAN : ApiEmit(ok)

-----------------------------------------------------------------------------
\* The state after construction: every field at its initialiser. v names the
\* part that runs.
Init(v) ==
  /\ ws_variant \in v
  /\ chat_currentUserId = NoUser
  /\ chat_messageCache = <<>>
  /\ chat_conversationCache = <<>>
  /\ chat_wsListeners = 0
  /\ chat_pc = "idle"
  /\ chat_stored = [convs |-> <<>>, msgs |-> <<>>]
  /\ chat_sentLog = <<>>
  /\ chat_offlineAcked = {}
  /\ push_isConnected = FALSE
  /\ push_ws = 0
  /\ push_socks = <<>>
  /\ push_reconnectAttempts = 0
  /\ push_timers = <<>>
  /\ push_messageQueue = <<>>
  /\ push_replays = <<>>
  /\ push_requeue = <<>>
  /\ push_hung = FALSE
  /\ push_hist = [emitted |-> 0, transport |-> <<>>, acked |-> {}, failures |-> 0,
                  prior |-> -1,
                  lastArmed |-> [delay |-> 0, failures |-> 0, prior |-> -1],
                  openAt |-> 0, openQ |-> <<>>, sendFailures |-> 0, auto |-> 0]
  /\ api_status = "disconnected"
  /\ api_webSocket = 0
  /\ api_socks = <<>>
  /\ api_reconnectTimer = 0
  /\ api_reconnectAttempts = 0
  /\ api_hist = [emitted |-> 0, transport |-> <<>>, dropped |-> {}, failures |-> 0,
                 prior |-> -1,
                 lastArmed |-> [delay |-> 0, failures |-> 0, prior |-> -1],
                 settled |-> <<>>, note |-> "none", inbound |-> <<>>]
  /\ api_connectionListeners = <<>>
  /\ api_fanout = [start |-> <<>>, invoked |-> <<>>, removed |-> {}]

-----------------------------------------------------------------------------
\* common/api/WebSocketManager.ets: the connection listeners and the fan-out
\* of notifyConnectionListeners. A listener is an object; what its callback
\* does with the listener list when it is invoked is up to the listener.

MaxListeners == 2      \* listener objects
MaxRegistered == 3     \* length of connectionListeners

Listeners == 1..MaxListeners

\* What a callback does: nothing, addConnectionListener(l) or
\* removeConnectionListener(l).
Effects ==
  {[op |-> "none", l |-> 0]}
    \cup {[op |-> o, l |-> l] : o \in {"add", "remove"}, l \in Listeners}

\* connectionListeners.push(listener)
addConnectionListener(arr, listener) == Append(arr, listener)

\* connectionListeners.indexOf(listener), 0 for -1.
IndexOf(arr, listener) ==
  IF \E i \in DOMAIN arr : arr[i] = listener
  THEN CHOOSE i \in DOMAIN arr :
         arr[i] = listener /\ \A j \in 1..(i - 1) : arr[j] # listener
  ELSE 0

\* removeConnectionListener(listener): indexOf, then splice(index, 1) on the
\* array itself.
removeConnectionListener(arr, listener) ==
  IF IndexOf(arr, listener) = 0 THEN arr ELSE RemoveAt(arr, IndexOf(arr, listener))

\* The array a callback leaves behind.
Applied(arr, e) ==
  IF e.op = "add" THEN addConnectionListener(arr, e.l)
  ELSE IF e.op = "remove" THEN removeConnectionListener(arr, e.l)
  ELSE arr

\* notifyConnectionListeners(event): this.connectionListeners.forEach(...)
\* from index k on. forEach reads the length once, before the first callback,
\* and reads element k of the array itself when it gets to k; an index the
\* array no longer has is passed over.
RECURSIVE notifyConnectionListeners(_, _, _, _, _)
notifyConnectionListeners(arr, k, len, react, out) ==
  IF k > len THEN [listeners |-> arr, fanout |-> out]
  ELSE IF k > Len(arr)
  THEN notifyConnectionListeners(arr, k + 1, len, react, out)
  ELSE LET listener == arr[k]
           e == react[listener]
       IN notifyConnectionListeners(Applied(arr, e), k + 1, len, react,
            [out EXCEPT !.invoked = Append(@, listener),
                        !.removed = IF e.op = "remove" /\ IndexOf(arr, e.l) # 0
                                    THEN @ \cup {e.l} ELSE @])

ListenerRuns == ws_variant = "listeners"

ListenerFrame == UNCHANGED <<chatVars, ws_variant, pushVars, apiVars>>

\* addConnectionListener(listener) called outside a notification.
ApiAddConnectionListener(listener) ==
  /\ ListenerRuns
  /\ Len(api_connectionListeners) < MaxRegistered
  /\ api_connectionListeners' = addConnectionListener(api_connectionListeners, listener)
  /\ UNCHANGED api_fanout
  /\ ListenerFrame

\* removeConnectionListener(listener) called outside a notification.
ApiRemoveConnectionListener(listener) ==
  /\ ListenerRuns
  /\ IndexOf(api_connectionListeners, listener) # 0
  /\ api_connectionListeners' = removeConnectionListener(api_connectionListeners, listener)
  /\ UNCHANGED api_fanout
  /\ ListenerFrame

\* One notifyConnectionListeners(event) call, the callbacks included; react
\* says what the callback of each listener does.
ApiNotifyConnectionListeners(react) ==
  /\ ListenerRuns
  /\ api_connectionListeners # <<>>
  /\ LET run == notifyConnectionListeners(api_connectionListeners, 1,
                  Len(api_connectionListeners), react,
                  [start |-> api_connectionListeners, invoked |-> <<>>, removed |-> {}])
     IN /\ Len(run.listeners) <= MaxRegistered
        /\ api_connectionListeners' = run.listeners
        /\ api_fanout' = run.fanout
  /\ ListenerFrame

ListenerNext ==
  \/ \E l \in Listeners : ApiAddConnectionListener(l)
  \/ \E l \in Listeners : ApiRemoveConnectionListener(l)
  \/ \E react \in [Listeners -> Effects] : ApiNotifyConnectionListeners(react)

\* The message store of ChatManager.ets.
SpecChat == Init({"none"}) /\ [][ChatNext]_vars

\* The message store on a persistence layer whose writes can fail, with no
\* offline messages waiting on the server.
PersistNext ==
  \/ ChatConnect(Me)
  \/ \E convOk, offOk \in BOOLEAN, S \in SUBSET Peers :
       ChatSyncFromServer(convOk, S, offOk, <<>>, FALSE)
  \/ ChatDisconnect
  \/ \E r \in Peers, m \in Texts : ChatSendMessage(r, m)
  \/ \E r \in Peers, m \in Texts : ChatSendMessageSaveFails(r, m)
  \/ \E p \in Peers : ChatMarkAsRead(p)
  \/ \E p \in Peers : ChatMarkAsReadSaveFails(p)
  \/ \E k \in ServerMsgIds : ChatOnPrivateMessage(k)
  \/ \E k \in ServerMsgIds : ChatOnPrivateMessageSaveFails(k)
  \/ \E i \in 1..MaxSends : ChatOnEcho(i)

SpecPersist == Init({"none"}) /\ [][PersistNext]_vars

\* The two WebSocketManagers, one or the other running.
WsNext == PushNext \/ ApiNext

SpecWs == Init({"push", "api"}) /\ [][WsNext]_vars

\* ChatManager.ets on its WebSocketManager: the calls of connect() and
\* disconnect() on the chat manager next to the connection life cycle of the
\* socket.
SyncNext ==
  \/ ChatConnect(Me)
  \/ \E convOk, offOk, ackOk \in BOOLEAN, S \in SUBSET Peers,
          batch \in Batches \cup {<<>>} :
       ChatSyncFromServer(convOk, S, offOk, batch, ackOk)
  \/ ChatDisconnect
  \/ ApiConnect
  \/ ApiTimerFires
  \/ \E s \in 1..MaxSockets : ApiOnOpen(s)
  \/ \E s \in 1..MaxSockets : ApiOnClose(s)
  \/ ApiDisconnect

SpecSync == Init({"api"}) /\ [][SyncNext]_vars

\* The reconnecting of the Push manager alone, followed over more sockets:
\* connect(), the reconnect timers, and the events of the sockets.
RetryConnect == push_socks = <<>> /\ PushConnect

RetryTimerFires(i) ==
  /\ \A s \in DOMAIN push_socks : push_socks[s] # "connecting"
  /\ PushTimerFires(i)

RetryNext ==
  \/ RetryConnect
  \/ \E i \in 1..MaxRetryTimers : RetryTimerFires(i)
  \/ \E s \in 1..MaxRetrySockets : PushConnectRejects(s)
  \/ \E s \in 1..MaxRetrySockets : PushOnOpen(s, TRUE)
  \/ \E s \in 1..MaxRetrySockets : PushOnClose(s)

SpecRetry == Init({"retry"}) /\ [][RetryNext]_vars

\* The Api manager with its own pending work done: a reconnect timer that is
\* armed fires. Whether and when a socket opens, closes or fails is up to the
\* network, and when connect() or disconnect() is called up to the caller.
SpecApiFair == Init({"api"}) /\ [][ApiNext]_vars /\ WF_vars(ApiTimerFires)

\* The connection listeners of the Api manager and their notification.
SpecListeners == Init({"listeners"}) /\ [][ListenerNext]_vars

-----------------------------------------------------------------------------
\* Properties of the WebSocketManagers.

IsPrefix(a, b) == Len(a) <= Len(b) /\ SubSeq(b, 1, Len(a)) = a

\* The frames handed to the transport since the last open event, in order.
SinceOpen ==
  [i \in 1..(Len(push_hist.transport) - push_hist.openAt) |->
     push_hist.transport[push_hist.openAt + i].f]

\* Those of them that were in the queue at that open event.
QueuedSinceOpen ==
  LET WasQueued(f) == \E i \in DOMAIN push_hist.openQ : push_hist.openQ[i] = f
  IN SelectSeq(SinceOpen, WasQueued)

\* Nothing of the replay is pending any more.
ReplayOver ==
  /\ push_replays = <<>>
  /\ push_requeue = <<>>
  /\ push_messageQueue = <<>>
  /\ ~push_hung

\* C1: the frames enqueued while the transport was not connected reach the
\* transport after the next open in their enqueue order, none out of order
\* or twice, and once the replay is over none is missing.
C1_QueuedFramesInOrderNoLoss ==
  /\ IsPrefix(QueuedSinceOpen, push_hist.openQ)
  /\ ReplayOver => QueuedSinceOpen = push_hist.openQ

\* C5: every reconnect timer armed after n consecutive failures (failures
\* handled since the last open) has a delay of at least reconnectDelay * n.
C5_BackoffAtLeastLinear ==
  /\ push_hist.lastArmed.delay >= PushReconnectDelay * push_hist.lastArmed.failures
  /\ api_hist.lastArmed.delay >= ApiReconnectDelay * api_hist.lastArmed.failures

\* The attempt cap is reached: a timer was armed after as many failures.
C5_Witness == api_hist.lastArmed.failures = ApiMaxReconnectAttempts

PushOpens ==
  \E s \in DOMAIN push_socks : push_socks[s] = "connecting" /\ push_socks'[s] = "open"

ApiOpens ==
  \E s \in DOMAIN api_socks : api_socks[s] = "connecting" /\ api_socks'[s] = "open"

\* C6: right after every open event the failure counter is 0, and the timer
\* armed by the first failure after an open has the delay of n = 1, however
\* many failures came before that open.
C6_CounterResetOnOpen ==
  [][/\ PushOpens => push_reconnectAttempts' = 0
     /\ ApiOpens => api_reconnectAttempts' = 0
     /\ push_hist'.lastArmed.failures = 1
          => push_hist'.lastArmed.delay = PushReconnectDelay
     /\ api_hist'.lastArmed.failures = 1
          => api_hist'.lastArmed.delay = ApiReconnectDelay]_vars

\* A first failure after an open that itself came after two or more failures.
C6_Witness ==
  /\ push_hist.lastArmed.failures = 1
  /\ push_hist.lastArmed.prior >= 2

\* C7: after an open event the frames that were queued reach the transport,
\* oldest first, before any frame produced after it: what has been handed to
\* the transport since the open is a prefix of the queue as it was, or
\* continues it. Stated for the runs in which no send on an open socket is
\* rejected.
C7_ReplayBeforeNewTraffic ==
  push_hist.sendFailures = 0
    => IsPrefix(SinceOpen, push_hist.openQ) \/ IsPrefix(push_hist.openQ, SinceOpen)

\* The manager is connected again on a socket created after s, and has
\* nothing left to send.
ReconnectedAfter(s) ==
  /\ push_isConnected
  /\ push_ws > s
  /\ push_socks[push_ws] = "open"
  /\ ReplayOver

\* C9: a frame handed to a transport that closed before its message_sent
\* acknowledgment arrived is, after the reconnect, handed to the new
\* transport exactly once.
C9_UnackedFrameRetransmittedOnce ==
  \A i \in DOMAIN push_hist.transport :
    LET e == push_hist.transport[i]
        Again(x) == x.f = e.f /\ x.s = push_ws
    IN (push_socks[e.s] = "dead" /\ e.f \notin push_hist.acked /\ ReconnectedAfter(e.s))
         => Len(SelectSeq(push_hist.transport, Again)) = 1

\* A failure handler runs with the attempt counter at its maximum:
\* scheduleReconnect() arms no timer any more.
ApiGivesUp ==
  /\ api_reconnectAttempts >= ApiMaxReconnectAttempts
  /\ \E s \in DOMAIN api_socks :
       ApiOnClose(s) \/ ApiOnError(s) \/ ApiConnectRejects(s)

\* C13: when a failure arrives after the maximum number of attempts, the
\* manager ends in the status disconnected and its connection listeners are
\* told of an error.
C13_GivingUpIsSurfaced ==
  [][ApiGivesUp => /\ api_status' = "disconnected"
                   /\ api_hist'.note = "error"]_vars

\* disconnect() was the last call of the application on the manager.
ApiOff == api_webSocket = 0 /\ api_socks # <<>>

PushOff == push_ws # 0 /\ push_socks[push_ws] \in {"closing", "closed"}

\* C14: after disconnect(), until the application calls connect() again, no
\* socket is created and the manager stays disconnected, whatever socket
\* events and timers follow.
C14_DisconnectStopsReconnecting ==
  [][/\ (ApiOff /\ ~ApiConnect)
          => /\ Len(api_socks') = Len(api_socks)
             /\ api_status' = "disconnected"
     /\ (PushOff /\ ~PushConnect)
          => /\ Len(push_socks') = Len(push_socks)
             /\ ~push_isConnected']_vars

\* C15: an emit call made while the status is not connected hands nothing to
\* the socket and settles differently from an emit call whose send succeeded.
C15_EmitFailsFastWhenNotConnected ==
  \A f \in api_hist.dropped :
    /\ api_hist.settled[f] # ApiEmitSettles(TRUE, TRUE)
    /\ \A i \in DOMAIN api_hist.transport : api_hist.transport[i].f # f

Held(queue, requeue) ==
  {queue[i] : i \in DOMAIN queue} \cup {requeue[i] : i \in DOMAIN requeue}

\* Frame f was handed to a socket that has closed since.
SentOnClosedSocket(f, hist, socks) ==
  \E i \in DOMAIN hist.transport :
    hist.transport[i].f = f /\ socks[hist.transport[i].s] \in {"dead", "closed"}

\* C17: a frame leaves the outbound queue only when it is acknowledged, and a
\* frame that was transmitted on a connection that dropped before its
\* acknowledgment is in the queue.
C17_QueueEntryLeavesOnlyOnAck ==
  [][\A f \in 1..MaxEmits :
       /\ (f \in Held(push_messageQueue, push_requeue)
            /\ f \notin Held(push_messageQueue', push_requeue'))
             => f \in push_hist'.acked
       /\ (SentOnClosedSocket(f, push_hist', push_socks') /\ f \notin push_hist'.acked)
             => f \in Held(push_messageQueue', push_requeue')]_vars

\* C18: every open event that reaches a connected, idle chat manager starts
\* the offline sync (syncFromServer).
C18_SyncOnEveryConnected ==
  [][(ApiOpens /\ chat_wsListeners > 0 /\ chat_pc = "idle")
       => chat_pc' = "syncFromServer"]_vars

\* C19: no emit call rejects: the promise of every emit call resolves.
C19_EmitNeverThrows ==
  \A f \in DOMAIN api_hist.settled : api_hist.settled[f] # "rejected"

\* C26: the status of the Api manager moves along the edges of the state
\* machine only: it becomes connected from connecting and from no other
\* status, it becomes connecting from disconnected or error (a connect() call
\* or the reconnect timer) and never from connected, and connected is left
\* for disconnected or error.
C26_StatusFollowsStateMachine ==
  [][/\ (api_status' = "connected" /\ api_status # "connected")
          => api_status = "connecting"
     /\ (api_status' = "connecting" /\ api_status # "connecting")
          => api_status \in {"disconnected", "error"}
     /\ (api_status = "connected" /\ api_status' # "connected")
          => api_status' \in {"disconnected", "error"}]_vars

\* C27: the Push manager makes at most maxReconnectAttempts automatic
\* reconnect attempts (connect() calls of a reconnect timer that create a
\* socket) after the last open event, or after the start when there was none.
C27_AutomaticAttemptsCapped ==
  push_hist.auto <= PushMaxReconnectAttempts

\* C28: the Api manager does not stay connecting forever: whenever its
\* status is connecting, the status changes later on, whether or not the
\* socket ever reports an open, a close or an error.
C28_ConnectingEnds ==
  (api_status = "connecting") ~> (api_status # "connecting")

\* How often listener l occurs in the sequence s.
Times(s, l) == Cardinality({i \in DOMAIN s : s[i] = l})

\* C29: in every notification, a listener that was registered when the
\* notification started and that no callback removed during it is invoked
\* exactly once per registration, whatever the callbacks add or remove.
C29_FanOutOverSnapshot ==
  \A l \in Listeners :
    l \notin api_fanout.removed
      => Times(api_fanout.invoked, l) = Times(api_fanout.start, l)

C32_SingleReconnectTimer ==
  Len(push_timers) <= 1

\* The sockets of the Api manager that have reported a failure: an error
\* event, a rejected connect call or a close event.
ApiFailedSockets ==
  {s \in DOMAIN api_socks : api_socks[s] \in {"errored", "rejected", "dead"}}

\* C33: every failed socket counts once: reconnectAttempts of the Api manager
\* never exceeds the number of sockets that have failed.
C33_OneFailureCountsOnce ==
  api_reconnectAttempts <= Cardinality(ApiFailedSockets)


\* C34: in every reachable state the history of every peer is in ascending
\* order of createdAt: no row of a cache entry is older than a row before it.
C34_HistoryOrderedByCreatedAt ==
  \A k \in DOMAIN chat_messageCache :
    \A i, j \in DOMAIN chat_messageCache[k] :
      i < j => chat_messageCache[k][i].createdAt <= chat_messageCache[k][j].createdAt

\* C35: the row sendMessage(receiverId, body) adds to the cache has the local
\* user as sender, the given receiver, the given body, and no server id.
C35_LocalMessageFields ==
  [][\A r \in Peers, m \in Texts :
       ChatSendMessage(r, m) =>
         LET row == chat_messageCache'[r][Len(chat_messageCache'[r])]
         IN /\ row.senderId = chat_currentUserId
            /\ row.receiverId = r
            /\ row.message = m
            /\ row.id = Undefined]_vars

\* C39: no cache entry is keyed by the local user's own id, and every row
\* filed under a key k is a message exchanged with k: k is its sender or its
\* receiver.
C39_FiledUnderOtherParticipant ==
  \A k \in DOMAIN chat_messageCache :
    /\ k \in Peers
    /\ \A i \in DOMAIN chat_messageCache[k] :
         \/ chat_messageCache[k][i].senderId = k
         \/ chat_messageCache[k][i].receiverId = k


\* C36: an open, close or error event of a socket that is not the current
\* socket of the Api manager leaves the status as it is, and whenever the
\* status is connected the current socket handle is set and is an open socket.
C36_StaleSocketEventsIgnored ==
  [][/\ \A s \in DOMAIN api_socks :
          (s # api_webSocket /\ (ApiOnOpen(s) \/ ApiOnClose(s) \/ ApiOnError(s)))
            => api_status' = api_status
     /\ api_status' = "connected"
          => (api_webSocket' # 0 /\ api_socks'[api_webSocket'] = "open")]_vars


\* The sockets of a manager that are open or being opened.
OpenOrOpening(socks) == {s \in DOMAIN socks : socks[s] \in {"connecting", "open"}}

\* C37: a connect() call made while the manager is connected or an attempt is
\* in progress creates no socket: each manager has at most one socket that is
\* open or being opened.
C37_ConnectWhileBusyIsNoOp ==
  /\ Cardinality(OpenOrOpening(api_socks)) <= 1
  /\ Cardinality(OpenOrOpening(push_socks)) <= 1


\* C38: a replay of the outbound queue finishes: the loop of
\* sendQueuedMessages never reaches a point from which it cannot end.
C38_ReplayFinishes ==
  ~push_hung

====
